---- MODULE Spec2Model ----
(***************************************************************************)
(* Hand-gesture DJ controller: HandTracker.detect_gestures and its gesture *)
(* predicates (hand_tracker.py), MixxxController (mixxx_controller.py) and *)
(* the frame loop of main() (test_mixxx_hand_control.py).                  *)
(*                                                                         *)
(* A landmarks list is a sequence of elements; an element is a point       *)
(* [x |-> .., y |-> ..] (a Python (x, y) tuple) or a label                 *)
(* [label |-> ".."] (the hand-type string process_frame appends).          *)
(* Python index i is TLA+ index i + 1: At(l, i) reads l[i].                *)
(* Times are integer milliseconds.                                         *)
(***************************************************************************)
EXTENDS Integers, Sequences, FiniteSets, TLC

VARIABLES
    pc,                      \* position of main(): "read", "handle", "waitkey", "done"
    landmarks_list,          \* main(): landmarks_list of the frame being processed
    gestures,                \* main(): gestures, a dict kept in insertion order
    idx,                     \* position of the loop over gestures.items()
    previous_play_pause,     \* previous_play_pause_left / _right
    pinch_active,            \* left_pinch_active / right_pinch_active
    last_pinch_time,         \* last_left_pinch_time / last_right_pinch_time
    is_playing,              \* MixxxController.is_playing
    clock,                   \* the latest value time.time() returned
    sent,                    \* keys handed to send_key in the current frame
    before,                  \* observer: the deck state the latest hand iteration started from
    last_snap,               \* observer: fist and pinch of each deck's latest snapshot
    was_pinching,            \* observer: pinch of the snapshot each deck handled last
    run,                     \* observer: nudge times of each deck's current unbroken pinch
    fist_scen,               \* observer: how far a deck's snapshots follow FistScenario
    scen_plays,              \* observer: play/pause keys sent along FistScenario
    was_fist,                \* observer: fist of the snapshot each deck handled last
    frames_seen,             \* observer: which decks had a snapshot in the last two frames
    verdicts,                \* observer: trigger outcomes seen right after a frame without the deck
    e2e,                     \* observer: progress and keys of the end-to-end scenario
    stop,                    \* observer: waitKey has read the quit key
    odd_plays,               \* observer: an odd number of play/pause keys was sent so far
    nudge_log,               \* observer: each deck's last nudge time and releases since
    controls                 \* what a call of tracker.get_dj_controls came to

prog == <<pc, landmarks_list, gestures, idx, previous_play_pause, pinch_active,
          last_pinch_time, is_playing, clock, sent>>

observers == <<before, last_snap, was_pinching, run, fist_scen, scen_plays,
               was_fist, frames_seen, verdicts, e2e, stop, odd_plays, nudge_log, controls>>

vars == <<prog, observers>>

-----------------------------------------------------------------------------
(* Bounds and program constants *)

MaxTime == 402

MaxPinchTime == 1005

MaxListLen == 2

MaxHands == 2

MinElements == 22

PinchDistance == 30

PinchRepeatMs == 200

FingersNeeded == 4

Decks == {"left", "right"}

-----------------------------------------------------------------------------
(* Landmark elements *)

Point(px, py) == [x |-> px, y |-> py]

Label(s) == [label |-> s]

IsLabel(e) == "label" \in DOMAIN e

At(l, i) == l[i + 1]

\* landmarks[-1]
LastOf(l) == l[Len(l)]

\* landmarks[:-1]
ButLast(l) == SubSeq(l, 1, Len(l) - 1)

-----------------------------------------------------------------------------
(* HandTracker: gesture predicates *)

finger_tips == <<8, 12, 16, 20>>

finger_mids == <<6, 10, 14, 18>>

finger_bases == <<5, 9, 13, 17>>

\* a tip level with its joint counted as curled
IsFistInclusive(landmarks) ==
    LET curled_fingers == Cardinality({k \in 1..4 :
            At(landmarks, finger_tips[k]).y >= At(landmarks, finger_mids[k]).y})
    IN  curled_fingers >= FingersNeeded

_is_fist(landmarks) ==
    LET curled_fingers == Cardinality({k \in 1..4 :
            At(landmarks, finger_tips[k]).y > At(landmarks, finger_mids[k]).y})
    IN  curled_fingers >= FingersNeeded

_is_open_hand(landmarks) ==
    LET extended_fingers == Cardinality({k \in 1..4 :
            At(landmarks, finger_tips[k]).y < At(landmarks, finger_mids[k]).y})
    IN  extended_fingers >= FingersNeeded

\* a thumb tip exactly 30 pixels from the index tip counted as a pinch
IsPinchInclusive(landmarks) ==
    LET thumb_tip == At(landmarks, 4)
        index_tip == At(landmarks, 8)
        dx == thumb_tip.x - index_tip.x
        dy == thumb_tip.y - index_tip.y
    IN  dx * dx + dy * dy <= PinchDistance * PinchDistance

\* np.sqrt(dx^2 + dy^2) < 30 on integer pixels: sqrt is monotone and exact on
\* 900, so the comparison is dx^2 + dy^2 < 30^2.
_is_pinch(landmarks) ==
    LET thumb_tip == At(landmarks, 4)
        index_tip == At(landmarks, 8)
        dx == thumb_tip.x - index_tip.x
        dy == thumb_tip.y - index_tip.y
    IN  dx * dx + dy * dy < PinchDistance * PinchDistance

_get_hand_position(landmarks) == At(landmarks, 0)

\* the palm centre taken with integer division
DetermineFloored(landmarks) ==
    LET thumb_tip == landmarks[5]
        palm_sum == landmarks[6].x + landmarks[10].x + landmarks[14].x + landmarks[18].x
    IN  IF thumb_tip.x < palm_sum \div 4 THEN "right" ELSE "left"

\* thumb_x < (b5 + b9 + b13 + b17) / 4 with true division: compared as
\* 4 * thumb_x < b5 + b9 + b13 + b17.
_determine_hand_type(landmarks) ==
    LET thumb_tip == At(landmarks, 4)
        palm_sum == At(landmarks, finger_bases[1]).x + At(landmarks, finger_bases[2]).x
                    + At(landmarks, finger_bases[3]).x + At(landmarks, finger_bases[4]).x
    IN  IF 4 * thumb_tip.x < palm_sum THEN "right" ELSE "left"

-----------------------------------------------------------------------------
(* HandTracker.detect_gestures *)

\* hand_type in ["left", "right"]: a point is never equal to a string
InLeftRight(hand_type) == IsLabel(hand_type) /\ hand_type.label \in {"left", "right"}

\* a resolver that trusts the tag as given
SwapKept(label) == label

Swap(label) == IF label = "left" THEN "right" ELSE "left"

HandId(hand_type) == IF hand_type = "left" THEN "left_hand" ELSE "right_hand"

\* the deck identity detect_gestures gives one observation that passed the guard
ResolveHandId(landmarks) ==
    LET hand_type == LastOf(landmarks)
        landmark_coords == ButLast(landmarks)
    IN  IF InLeftRight(hand_type)
        THEN HandId(Swap(hand_type.label))
        ELSE HandId(_determine_hand_type(landmark_coords))

Snapshot(hand_id, landmark_coords) ==
    [hand_id       |-> hand_id,
     fist          |-> _is_fist(landmark_coords),
     open_hand     |-> _is_open_hand(landmark_coords),
     pinch         |-> _is_pinch(landmark_coords),
     hand_position |-> _get_hand_position(landmark_coords)]

HasKey(d, k) == \E i \in 1..Len(d) : d[i].hand_id = k

KeyIndex(d, k) == CHOOSE i \in 1..Len(d) : d[i].hand_id = k

\* "gestures = {hand_id: ...}": every observation starts the dict afresh
DictSetFresh(d, entry) == <<entry>>

\* gestures kept as a list of pairs: a repeated key appended, not overwritten
DictSetAppended(d, entry) == Append(d, entry)

\* gestures[hand_id] = {...}: a new key goes last, an existing key keeps its place
DictSet(d, entry) ==
    IF HasKey(d, entry.hand_id)
    THEN [d EXCEPT ![KeyIndex(d, entry.hand_id)] = entry]
    ELSE Append(d, entry)

\* the observations the guard lets through
PassesGuard(landmarks) == ~(Len(landmarks) < MinElements)

RECURSIVE DetectFrom(_, _, _)
DetectFrom(list, i, acc) ==
    IF i > Len(list) THEN acc
    ELSE LET landmarks == list[i]
         IN  IF ~PassesGuard(landmarks)
             THEN DetectFrom(list, i + 1, acc)
             ELSE DetectFrom(list, i + 1,
                      DictSet(acc, Snapshot(ResolveHandId(landmarks), ButLast(landmarks))))

detect_gestures(list) == DetectFrom(list, 1, <<>>)

-----------------------------------------------------------------------------
(* Hand observations fed to the program: 21-point mock hands in the style of
   test_gesture_detection (every point (100, 100) but the ones under test) *)

NoLabel == ""

MockCoord(i, tipsY, thumb, basesX) ==
    IF i = 4 THEN thumb
    ELSE IF \E k \in 1..4 : finger_tips[k] = i
         THEN Point(100, tipsY[CHOOSE k \in 1..4 : finger_tips[k] = i])
    ELSE IF \E k \in 1..4 : finger_bases[k] = i
         THEN Point(basesX[CHOOSE k \in 1..4 : finger_bases[k] = i], 100)
    ELSE Point(100, 100)

\* n points, then the hand-type label unless it is NoLabel
MockHand(tipsY, thumb, basesX, n, label) ==
    LET coords == [j \in 1..n |-> MockCoord(j - 1, tipsY, thumb, basesX)]
    IN  IF label = NoLabel THEN coords ELSE Append(coords, Label(label))

\* a hand with all four fingers curled (fist) or extended, the thumb tip 10
\* (pinch) or 40 (no pinch) pixels left (side = -1) or right (side = 1) of
\* the index tip
PoseHand(fist, pinch, side, n, label) ==
    LET ty == IF fist THEN 150 ELSE 50
        off == IF pinch THEN 10 ELSE 40
    IN  MockHand(<<ty, ty, ty, ty>>, Point(100 + side * off, ty),
                 <<100, 100, 100, 100>>, n, label)

\* the hands of the frame loop's environment
LoopHands ==
    {PoseHand(f, p, -1, 21, t) : f \in BOOLEAN, p \in BOOLEAN, t \in {"left", "right"}}
    \cup {PoseHand(FALSE, TRUE, s, 21, "unknown") : s \in {-1, 1}}
    \cup {PoseHand(TRUE, TRUE, -1, 20, "left"), PoseHand(TRUE, TRUE, -1, 22, "left")}

SeqsUpTo(S, n) == UNION {[1..k -> S] : k \in 0..n}

LoopFrames == SeqsUpTo(LoopHands, MaxHands)

\* time.time() advances by one of these between two reads
ClockSteps == {0, PinchRepeatMs, PinchRepeatMs + 1}

-----------------------------------------------------------------------------
(* MixxxController *)

keyboard_mappings(action) ==
    IF action = "play_pause_left" THEN "d"
    ELSE IF action = "play_pause_right" THEN "l"
    ELSE "?"

\* the key put in front of the keys already sent
SendKeyFirst(log, key, ok) == <<[key |-> key, ok |-> ok]>> \o log

\* send_key: the key goes to the Output Sink; a failure of the sink (ok =
\* FALSE) is caught and printed, nothing is raised
send_key(log, key, ok) == Append(log, [key |-> key, ok |-> ok])

\* a failed send that escapes handle_play_pause before the flag is flipped
HandlePlayPauseUnsent(playing, log, play_pause_triggered, deck, ok) ==
    IF play_pause_triggered
    THEN [is_playing |-> IF ok THEN ~playing ELSE playing,
          log |-> Append(log, [key |-> keyboard_mappings("play_pause_" \o deck), ok |-> ok])]
    ELSE [is_playing |-> playing, log |-> log]

\* handle_play_pause(play_pause_triggered, deck) on <<is_playing, log>>
handle_play_pause(playing, log, play_pause_triggered, deck, ok) ==
    IF play_pause_triggered
    THEN [is_playing |-> ~playing,
          log |-> send_key(log, keyboard_mappings("play_pause_" \o deck), ok)]
    ELSE [is_playing |-> playing, log |-> log]

\* get_status()['playing'], the playing status the controller keeps: one flag,
\* the same for either deck
PlayingStatus(deck) == is_playing

-----------------------------------------------------------------------------
(* main(): the frame loop *)

NudgeKey(deck) == IF deck = "left" THEN "g" ELSE "h"

\* the right-deck branch left reading the left deck's variables
DeckStateLeft(deck) ==
    [previous |-> previous_play_pause["left"],
     active   |-> pinch_active["left"],
     last     |-> last_pinch_time["left"]]

\* the carried variables a deck's branch reads: previous_play_pause_left,
\* left_pinch_active and last_left_pinch_time in the left branch, the *_right
\* ones in the right branch
DeckState(deck) ==
    [previous |-> previous_play_pause[deck],
     active   |-> pinch_active[deck],
     last     |-> last_pinch_time[deck]]

\* the two branches of the hand loop exchanged
DeckOfCrossed(hand_id) == IF hand_id = "left_hand" THEN "right" ELSE "left"

DeckOf(hand_id) == IF hand_id = "left_hand" THEN "left" ELSE "right"

\* a level trigger: fires on every frame the fist is seen
PlayPauseLevel(current, previous) == current

\* the play/pause trigger: current and not previous
PlayPauseTriggered(current, previous) == current /\ ~previous

\* a repeat test that also fires at exactly the repeat interval
RepeatDueInclusive(current_time, last_time) == current_time - last_time >= PinchRepeatMs

\* the held-pinch repeat test
RepeatDue(current_time, last_time) == current_time - last_time > PinchRepeatMs

\* pinch branches that rate-limit the rising edge too
PinchStepThrottled(pinch, active, last_time, current_time) ==
    IF pinch
    THEN IF RepeatDue(current_time, last_time)
         THEN [active |-> TRUE, last |-> current_time, nudge |-> TRUE]
         ELSE [active |-> TRUE, last |-> last_time, nudge |-> FALSE]
    ELSE [active |-> FALSE, last |-> last_time, nudge |-> FALSE]

\* pinch branches that stamp the time when the pinch ends
PinchStepStamped(pinch, active, last_time, current_time) ==
    IF pinch /\ ~active
    THEN [active |-> TRUE, last |-> current_time, nudge |-> TRUE]
    ELSE IF pinch /\ active
    THEN IF RepeatDue(current_time, last_time)
         THEN [active |-> TRUE, last |-> current_time, nudge |-> TRUE]
         ELSE [active |-> TRUE, last |-> last_time, nudge |-> FALSE]
    ELSE IF ~pinch /\ active
    THEN [active |-> FALSE, last |-> current_time, nudge |-> FALSE]
    ELSE [active |-> active, last |-> last_time, nudge |-> FALSE]

\* pinch branches without the "pinch ended" branch
PinchStepSticky(pinch, active, last_time, current_time) ==
    IF pinch /\ ~active
    THEN [active |-> TRUE, last |-> current_time, nudge |-> TRUE]
    ELSE IF pinch /\ active
    THEN IF RepeatDue(current_time, last_time)
         THEN [active |-> TRUE, last |-> current_time, nudge |-> TRUE]
         ELSE [active |-> TRUE, last |-> last_time, nudge |-> FALSE]
    ELSE [active |-> active, last |-> last_time, nudge |-> FALSE]

\* what the pinch branches do with one deck's pinch state: the new
\* pinch_active, the new last_pinch_time and whether a nudge key is sent
PinchStep(pinch, active, last_time, current_time) ==
    IF pinch /\ ~active
    THEN [active |-> TRUE, last |-> current_time, nudge |-> TRUE]
    ELSE IF pinch /\ active
    THEN IF RepeatDue(current_time, last_time)
         THEN [active |-> TRUE, last |-> current_time, nudge |-> TRUE]
         ELSE [active |-> TRUE, last |-> last_time, nudge |-> FALSE]
    ELSE IF ~pinch /\ active
    THEN [active |-> FALSE, last |-> last_time, nudge |-> FALSE]
    ELSE [active |-> active, last |-> last_time, nudge |-> FALSE]

-----------------------------------------------------------------------------
(* Observers: they record what the program did and never feed back into it *)

PlayKeys == {"d", "l"}

NudgeKeys == {"g", "h"}

KeyCount(log, keys) == Cardinality({i \in 1..Len(log) : log[i].key \in keys})

Suffix(log, from) == SubSeq(log, from + 1, Len(log))

NoStep == [deck |-> "none", previous |-> FALSE, active |-> FALSE, last |-> 0, mark |-> 0]

\* the fist sequence of the rising-edge scenario
FistScenario == <<FALSE, TRUE, TRUE, TRUE, FALSE>>

ScenAdvance(k, fist) ==
    IF k >= 0 /\ k < Len(FistScenario) /\ FistScenario[k + 1] = fist THEN k + 1 ELSE -1

\* the latest snapshot of each deck, as of a frame whose gestures are g
SnapAfter(snap, g) ==
    [d \in Decks |->
        IF HasKey(g, HandId(d))
        THEN [fist  |-> g[KeyIndex(g, HandId(d))].fist,
              pinch |-> g[KeyIndex(g, HandId(d))].pinch]
        ELSE snap[d]]

\* the nudge times of the unbroken pinch, after a snapshot with this pinch
\* value was handled at time now and nudged keys were sent for it
RunAfter(times, pinch, pinching, nudged, now) ==
    IF ~pinch THEN <<>>
    ELSE LET kept == IF pinching THEN times ELSE <<>>
         IN  IF nudged > 0 THEN Append(kept, now) ELSE kept

\* the decks with a snapshot in the frame before and in the frame whose
\* gestures are g; count is the number of frames so far, capped at 2
FramesAfter(seen, g) ==
    [count |-> IF seen.count < 2 THEN seen.count + 1 ELSE 2,
     prev  |-> seen.cur,
     cur   |-> {d \in Decks : HasKey(g, HandId(d))}]

\* a deck's snapshot is handled right after a frame in which the deck had none:
\* record whether play/pause fired for a fist, and whether a pinch was taken
\* as a rising edge
VerdictsAfter(v, seen, deck, snap, fired, rising) ==
    IF seen.count = 2 /\ deck \notin seen.prev
    THEN [fist  |-> IF snap.fist THEN v.fist \cup {fired} ELSE v.fist,
          pinch |-> IF snap.pinch THEN v.pinch \cup {rising} ELSE v.pinch]
    ELSE v

\* the end-to-end scenario: five frames of one hand tagged "left", a fist in
\* frames 1-3 and an open hand in frames 4-5, never a pinch
E2EHand(n) == PoseHand(n <= 3, FALSE, -1, 21, "left")

E2EFrame(e, list) ==
    IF e.n >= 0 /\ e.n < 5 /\ list = <<E2EHand(e.n + 1)>>
    THEN [n |-> e.n + 1, keys |-> e.keys]
    ELSE [n |-> -1, keys |-> <<>>]

E2EKeys(e, new) ==
    IF e.n >= 1
    THEN [n |-> e.n,
          keys |-> e.keys \o [i \in 1..Len(new) |-> [frame |-> e.n, key |-> new[i].key]]]
    ELSE e

\* a deck's last nudge time (-1 before its first nudge) and whether a snapshot
\* without pinch was handled for the deck since that nudge
NudgeLogAfter(l, pinch, nudged, now) ==
    IF nudged
    THEN [at |-> now, released |-> FALSE]
    ELSE [at |-> l.at, released |-> l.at >= 0 /\ (l.released \/ ~pinch)]

\* get_dj_controls has not been called
NotCalled == [called |-> FALSE]

-----------------------------------------------------------------------------
(* Initial state and steps *)

InitObservers ==
    /\ before = NoStep
    /\ last_snap = [d \in Decks |-> [fist |-> FALSE, pinch |-> FALSE]]
    /\ was_pinching = [d \in Decks |-> FALSE]
    /\ run = [d \in Decks |-> <<>>]
    /\ fist_scen = [d \in Decks |-> 0]
    /\ scen_plays = [d \in Decks |-> 0]
    /\ was_fist = [d \in Decks |-> FALSE]
    /\ frames_seen = [count |-> 0, prev |-> {}, cur |-> {}]
    /\ verdicts = [fist |-> {}, pinch |-> {}]
    /\ e2e = [n |-> 0, keys |-> <<>>]
    /\ stop = FALSE
    /\ odd_plays = FALSE
    /\ nudge_log = [d \in Decks |-> [at |-> -1, released |-> FALSE]]
    /\ controls = NotCalled

Init ==
    /\ pc = "read"
    /\ landmarks_list = <<>>
    /\ gestures = <<>>
    /\ idx = 1
    /\ previous_play_pause = [d \in Decks |-> FALSE]
    /\ pinch_active = [d \in Decks |-> FALSE]
    /\ last_pinch_time = [d \in Decks |-> 0]
    /\ is_playing = FALSE
    /\ clock = 0
    /\ sent = <<>>
    /\ InitObservers

\* cap.read() fails: the loop breaks
CaptureFail ==
    /\ pc = "read"
    /\ pc' = "done"
    /\ UNCHANGED <<landmarks_list, gestures, idx, previous_play_pause, pinch_active,
                   last_pinch_time, is_playing, clock, sent, observers>>

\* cap.read() succeeds; process_frame hands its landmarks list to detect_gestures;
\* landmarks_list is kept in the state only where "list" is watched
ProcessFrameOver(frames, watched) ==
    /\ pc = "read"
    /\ \E list \in frames :
         LET g == detect_gestures(list)
         IN  /\ gestures' = g
             /\ pc' = IF Len(g) = 0 THEN "waitkey" ELSE "handle"
             /\ last_snap' = SnapAfter(last_snap, g)
             /\ landmarks_list' = IF "list" \in watched THEN list ELSE landmarks_list
             /\ frames_seen' = IF "frames" \in watched
                               THEN FramesAfter(frames_seen, g)
                               ELSE frames_seen
             /\ e2e' = IF "e2e" \in watched THEN E2EFrame(e2e, list) ELSE e2e
    /\ idx' = 1
    /\ sent' = <<>>
    /\ before' = NoStep
    /\ UNCHANGED <<previous_play_pause, pinch_active, last_pinch_time, is_playing, clock,
                   was_pinching, run, fist_scen, scen_plays, was_fist, verdicts,
                   stop, odd_plays, nudge_log, controls>>

\* one iteration of "for hand_id, hand_gestures in gestures.items()"; the
\* observers named in watched follow it
HandleHandUntil(limit, watched) ==
    /\ pc = "handle"
    /\ idx <= Len(gestures)
    /\ \E step \in ClockSteps, okPlay \in BOOLEAN, okNudge \in BOOLEAN :
         LET hand_gestures == gestures[idx]
             deck == DeckOf(hand_gestures.hand_id)
             current_time == clock + step
             own == DeckState(deck)
             triggered == PlayPauseTriggered(hand_gestures.fist, own.previous)
             played == handle_play_pause(is_playing, sent, triggered, deck, okPlay)
             p == PinchStep(hand_gestures.pinch, own.active, own.last, current_time)
         IN  /\ current_time <= limit
             /\ clock' = current_time
             /\ is_playing' = played.is_playing
             /\ previous_play_pause' = [previous_play_pause EXCEPT ![deck] = hand_gestures.fist]
             /\ pinch_active' = [pinch_active EXCEPT ![deck] = p.active]
             /\ last_pinch_time' = [last_pinch_time EXCEPT ![deck] = p.last]
             /\ sent' = IF p.nudge THEN send_key(played.log, NudgeKey(deck), okNudge)
                        ELSE played.log
             /\ before' = [deck |-> deck, previous |-> previous_play_pause[deck],
                           active |-> pinch_active[deck], last |-> last_pinch_time[deck],
                           mark |-> Len(sent)]
             /\ was_pinching' = [was_pinching EXCEPT ![deck] = hand_gestures.pinch]
             /\ run' = IF "run" \in watched
                       THEN [run EXCEPT ![deck] =
                               RunAfter(run[deck], hand_gestures.pinch, was_pinching[deck],
                                        KeyCount(Suffix(sent', Len(sent)), NudgeKeys),
                                        current_time)]
                       ELSE run
             /\ fist_scen' = IF "fist" \in watched
                             THEN [fist_scen EXCEPT ![deck] =
                                     ScenAdvance(fist_scen[deck], hand_gestures.fist)]
                             ELSE fist_scen
             /\ scen_plays' = IF "fist" \in watched
                              THEN [scen_plays EXCEPT ![deck] =
                                      IF ScenAdvance(fist_scen[deck], hand_gestures.fist) < 0
                                      THEN 0
                                      ELSE scen_plays[deck]
                                           + KeyCount(Suffix(sent', Len(sent)), PlayKeys)]
                              ELSE scen_plays
             /\ was_fist' = [was_fist EXCEPT ![deck] = hand_gestures.fist]
             /\ verdicts' = IF "verdicts" \in watched
                            THEN VerdictsAfter(verdicts, frames_seen, deck, hand_gestures,
                                   KeyCount(Suffix(sent', Len(sent)), PlayKeys) > 0,
                                   ~pinch_active[deck])
                            ELSE verdicts
             /\ e2e' = IF "e2e" \in watched
                       THEN E2EKeys(e2e, Suffix(sent', Len(sent)))
                       ELSE e2e
             /\ odd_plays' = (odd_plays # (KeyCount(Suffix(sent', Len(sent)), PlayKeys) = 1))
             /\ nudge_log' = IF "nudges" \in watched
                             THEN [nudge_log EXCEPT ![deck] =
                                     NudgeLogAfter(nudge_log[deck], hand_gestures.pinch,
                                        KeyCount(Suffix(sent', Len(sent)), NudgeKeys) > 0,
                                        current_time)]
                             ELSE nudge_log
    /\ idx' = idx + 1
    /\ pc' = IF idx = Len(gestures) THEN "waitkey" ELSE "handle"
    /\ UNCHANGED <<landmarks_list, gestures, last_snap, frames_seen, stop, controls>>

\* the quit key read and the loop carried on all the same
AfterWaitKeyDeaf(quit) == "read"

\* "if key == ord('q'): break"; any other key or none goes round the loop
AfterWaitKey(quit) == IF quit THEN "done" ELSE "read"

\* cv2.waitKey(1): 'q' breaks the loop, any other key or none goes on; the
\* frame's gestures are not read again
WaitKey ==
    /\ pc = "waitkey"
    /\ \E quit \in BOOLEAN :
         /\ pc' = AfterWaitKey(quit)
         /\ stop' = quit
    /\ gestures' = <<>>
    /\ idx' = 1
    /\ sent' = <<>>
    /\ before' = NoStep
    /\ UNCHANGED <<landmarks_list, previous_play_pause, pinch_active, last_pinch_time,
                   is_playing, clock, last_snap, was_pinching, run, fist_scen, scen_plays,
                   was_fist, frames_seen, verdicts, e2e, odd_plays, nudge_log, controls>>

ProcessFrame == ProcessFrameOver(LoopFrames, {})

HandleHand == HandleHandUntil(MaxTime, {})

Next == CaptureFail \/ ProcessFrame \/ HandleHand \/ WaitKey

Spec == Init /\ [][Next]_vars

-----------------------------------------------------------------------------
(* The frame loop fed one hand per frame, with the fist scenario observed *)

SingleFrames == SeqsUpTo(LoopHands, 1)

ProcessSingleFrame == ProcessFrameOver(SingleFrames, {})

HandleFistHand == HandleHandUntil(MaxTime, {"fist"})

NextFist == CaptureFail \/ ProcessSingleFrame \/ HandleFistHand \/ WaitKey

SpecFist == Init /\ [][NextFist]_vars

-----------------------------------------------------------------------------
(* The frame loop fed one pinching or open hand per frame over a longer
   time, with the nudge times of each unbroken pinch observed *)

PinchHands == {PoseHand(FALSE, p, -1, 21, t) : p \in BOOLEAN, t \in {"left", "right"}}

PinchFrames == SeqsUpTo(PinchHands, 1)

ProcessPinchFrame == ProcessFrameOver(PinchFrames, {})

HandlePinchHand == HandleHandUntil(MaxPinchTime, {"run", "nudges"})

NextPinch == CaptureFail \/ ProcessPinchFrame \/ HandlePinchHand \/ WaitKey

SpecPinch == Init /\ [][NextPinch]_vars

-----------------------------------------------------------------------------
(* The frame loop with the landmarks list of the current frame kept in view *)

ProcessListedFrame == ProcessFrameOver(LoopFrames, {"list"})

HandleListedHand == HandleHandUntil(PinchRepeatMs, {})

NextList == CaptureFail \/ ProcessListedFrame \/ HandleListedHand \/ WaitKey

SpecList == Init /\ [][NextList]_vars

-----------------------------------------------------------------------------
(* The frame loop fed one hand per frame, with the decks present in the last
   two frames, the triggers after an absence and the end-to-end scenario
   observed *)

ProcessGapFrame == ProcessFrameOver(SingleFrames, {"frames", "e2e"})

HandleGapHand == HandleHandUntil(PinchRepeatMs + 1, {"verdicts", "e2e"})

NextGap == CaptureFail \/ ProcessGapFrame \/ HandleGapHand \/ WaitKey

SpecGap == Init /\ [][NextGap]_vars

-----------------------------------------------------------------------------
(* detect_gestures applied to one landmarks list *)

\* single hands that vary the label, the number of points, the thumb against
\* the palm centre, the pinch distance and the finger pattern
RichHands ==
    {MockHand(tips, Point(tx, tips[1] + dy), bases, n, label) :
        tips \in {<<150, 150, 150, 150>>, <<50, 50, 50, 50>>, <<150, 50, 150, 100>>},
        tx \in {99, 100, 101},
        dy \in {0, 40},
        bases \in {<<100, 100, 100, 100>>, <<100, 100, 100, 101>>, <<100, 100, 100, 99>>},
        n \in {20, 21, 22},
        label \in {"left", "right", "unknown", NoLabel}}

\* single 21-point hands tagged "left" with every finger's tip above, level
\* with or below its joint, the four joints at different heights
FingerHands ==
    {[i \in 1..22 |->
        IF i = 22 THEN Label("left")
        ELSE IF i \in {9, 13, 17, 21}
             THEN Point(100, 100 + 10 * ((i - 5) \div 4) + rise[(i - 5) \div 4])
        ELSE IF i \in {7, 11, 15, 19}
             THEN Point(100, 100 + 10 * ((i - 3) \div 4))
        ELSE Point(100, 100)] :
        rise \in [1..4 -> {-5, 0, 5}]}

\* thumb-tip offsets from the index tip around the distance 30: on the circle
\* ((30, 0), (18, 24), ...), just inside and just outside it
PinchOffsets ==
    {<<30, 0>>, <<0, 30>>, <<-30, 0>>, <<0, -30>>, <<18, 24>>, <<-18, 24>>, <<24, -18>>,
     <<29, 0>>, <<0, -29>>, <<31, 0>>, <<21, 21>>, <<22, 21>>, <<29, 7>>, <<29, 8>>,
     <<-24, -18>>, <<0, 0>>}

\* single 21-point open hands tagged "left" or "right", the thumb tip at such
\* an offset from the index tip
PinchEdgeHands ==
    {MockHand(<<50, 50, 50, 50>>, Point(100 + off[1], 50 + off[2]),
              <<100, 100, 100, 100>>, 21, label) :
        off \in PinchOffsets, label \in {"left", "right"}}

DetectFrames ==
    SeqsUpTo(LoopHands, MaxListLen)
        \cup {<<h>> : h \in RichHands \cup FingerHands \cup PinchEdgeHands}

InitDetect ==
    /\ pc = "detect"
    /\ landmarks_list \in DetectFrames
    /\ gestures = <<>>
    /\ idx = 1
    /\ previous_play_pause = [d \in Decks |-> FALSE]
    /\ pinch_active = [d \in Decks |-> FALSE]
    /\ last_pinch_time = [d \in Decks |-> 0]
    /\ is_playing = FALSE
    /\ clock = 0
    /\ sent = <<>>
    /\ InitObservers

DetectGestures ==
    /\ pc = "detect"
    /\ gestures' = detect_gestures(landmarks_list)
    /\ pc' = "returned"
    /\ UNCHANGED <<landmarks_list, idx, previous_play_pause, pinch_active, last_pinch_time,
                   is_playing, clock, sent, observers>>

NextDetect == DetectGestures

SpecDetect == InitDetect /\ [][NextDetect]_vars

-----------------------------------------------------------------------------
(* tracker.get_dj_controls called on the gestures detect_gestures returned *)

\* the attributes class HandTracker defines
HandTrackerMethods ==
    {"__init__", "process_frame", "detect_gestures", "_determine_hand_type", "_is_fist",
     "_is_open_hand", "_is_pinch", "_get_hand_position", "release"}

\* tracker.<name>(arg): Python looks the attribute up before anything is
\* called; a name the class does not define raises AttributeError. The class
\* defines no method that returns a controls mapping.
CallTracker(name, arg) ==
    IF name \in HandTrackerMethods
    THEN [called |-> TRUE, raised |-> "none", keys |-> {}]
    ELSE [called |-> TRUE, raised |-> "AttributeError", keys |-> {}]

get_dj_controls(g) == CallTracker("get_dj_controls", g)

GetDjControls ==
    /\ pc = "returned"
    /\ controls' = get_dj_controls(gestures)
    /\ pc' = "called"
    /\ UNCHANGED <<landmarks_list, gestures, idx, previous_play_pause, pinch_active,
                   last_pinch_time, is_playing, clock, sent, before, last_snap, was_pinching, run, fist_scen, scen_plays,
                   was_fist, frames_seen, verdicts, e2e, stop, odd_plays, nudge_log>>

NextControls == DetectGestures \/ GetDjControls

SpecControls == InitDetect /\ [][NextControls]_vars

-----------------------------------------------------------------------------
(* Vocabulary of the properties *)

\* an observation of exactly 21 points followed by a hand-type tag
WellFormed(o) ==
    /\ Len(o) = 22
    /\ IsLabel(o[22])
    /\ \A i \in 1..21 : ~IsLabel(o[i])

TagOf(o) == o[22].label

Inverted(tag) == IF tag = "left" THEN "right_hand" ELSE "left_hand"

\* thumb-tip x against the mean x of landmarks 5, 9, 13, 17
ThumbLeftOfPalm(o) == 4 * o[5].x < o[6].x + o[10].x + o[14].x + o[18].x

\* the deck identity the specification gives a well-formed observation
ExpectedId(o) ==
    IF TagOf(o) \in {"left", "right"}
    THEN Inverted(TagOf(o))
    ELSE IF ThumbLeftOfPalm(o) THEN "right_hand" ELSE "left_hand"

\* the four fingers' tips (8, 12, 16, 20) against their joints (6, 10, 14, 18)
Fingers == {<<9, 7>>, <<13, 11>>, <<17, 15>>, <<21, 19>>}

Curled(o, f) == o[f[1]].y > o[f[2]].y

Straight(o, f) == o[f[1]].y < o[f[2]].y

AllCurled(o) == \A f \in Fingers : Curled(o, f)

AllStraight(o) == \A f \in Fingers : Straight(o, f)

\* thumb tip (4) within 30 pixels of the index tip (8)
ThumbNearIndex(o) ==
    (o[5].x - o[9].x) * (o[5].x - o[9].x) + (o[5].y - o[9].y) * (o[5].y - o[9].y) < 900

\* the hand iterations of the current frame that stepped deck d so far
StepsOf(d) == Cardinality({i \in 1..(idx - 1) : DeckOf(gestures[i].hand_id) = d})

Entry(g, k) == g[CHOOSE i \in 1..Len(g) : g[i].hand_id = k]

KeysOf(g) == {g[i].hand_id : i \in 1..Len(g)}

\* the state right after the loop handled a snapshot of deck d
Handled(d) == pc \in {"handle", "waitkey"} /\ before.deck = d

HandledSnap == gestures[idx - 1]

\* the keys that iteration sent
StepKeys == Suffix(sent, before.mark)

\* in a step of the hand loop: the snapshot, its deck and the keys the step sends
StepSnap == gestures[idx]

StepDeck == DeckOf(gestures[idx].hand_id)

StepSent == Suffix(sent', Len(sent))

-----------------------------------------------------------------------------
(* C1: play/pause is rising-edge only. In every hand iteration a play/pause
   key is sent iff the snapshot's fist is true and the deck's previous fist
   is false, and the previous fist becomes the snapshot's fist either way;
   along the fist sequence F, T, T, T, F from the initial state exactly one
   play/pause key is sent, on the first T. *)
C1_RisingEdgeOnly ==
    /\ [][pc = "handle" =>
            /\ KeyCount(StepSent, PlayKeys)
                 = (IF StepSnap.fist /\ ~previous_play_pause[StepDeck] THEN 1 ELSE 0)
            /\ previous_play_pause'[StepDeck] = StepSnap.fist]_vars
    /\ [](\A d \in Decks :
            fist_scen[d] >= 0 => scen_plays[d] = (IF fist_scen[d] >= 2 THEN 1 ELSE 0))

C1_Witness == \E d \in Decks : fist_scen[d] = 5 /\ scen_plays[d] = 1

(* C2: pinch rising edge. A snapshot with pinch while the deck's
   pinch_active is false sends exactly one nudge key, however recent the
   previous nudge, sets pinch_active and stamps last_pinch_time with the
   time read. *)
C2_PinchRisingEdge ==
    [][
        (pc = "handle" /\ StepSnap.pinch /\ ~pinch_active[StepDeck]) =>
            /\ KeyCount(StepSent, NudgeKeys) = 1
            /\ pinch_active'[StepDeck]
            /\ last_pinch_time'[StepDeck] = clock'
    ]_vars

C2_Witness ==
    \E d \in Decks :
        /\ Handled(d) /\ HandledSnap.pinch /\ ~before.active
        /\ before.last > 0 /\ clock - before.last <= 200
        /\ KeyCount(StepKeys, NudgeKeys) = 1
        /\ pinch_active[d] /\ last_pinch_time[d] = clock

(* C3: pinch held. A snapshot with pinch while pinch_active is true sends a
   nudge key iff the time read exceeds last_pinch_time by more than 200 ms;
   last_pinch_time becomes that time iff a nudge is sent; pinch_active stays
   true. *)
C3_PinchHeld ==
    [][
        (pc = "handle" /\ StepSnap.pinch /\ pinch_active[StepDeck]) =>
            LET due == clock' - last_pinch_time[StepDeck] > 200
            IN  /\ KeyCount(StepSent, NudgeKeys) = (IF due THEN 1 ELSE 0)
                /\ last_pinch_time'[StepDeck]
                     = (IF due THEN clock' ELSE last_pinch_time[StepDeck])
                /\ pinch_active'[StepDeck]
    ]_vars

C3_Witness ==
    \E d \in Decks :
        /\ Handled(d) /\ HandledSnap.pinch /\ before.active
        /\ clock - before.last = 200
        /\ KeyCount(StepKeys, NudgeKeys) = 0
        /\ last_pinch_time[d] = before.last /\ pinch_active[d]

(* C4: pinch release and idle. A snapshot without pinch sends no nudge key,
   leaves pinch_active false and leaves last_pinch_time as it was. *)
C4_PinchRelease ==
    [][
        (pc = "handle" /\ ~StepSnap.pinch) =>
            /\ KeyCount(StepSent, NudgeKeys) = 0
            /\ pinch_active'[StepDeck] = FALSE
            /\ last_pinch_time'[StepDeck] = last_pinch_time[StepDeck]
    ]_vars

C4_Witness ==
    \E d \in Decks :
        /\ Handled(d) /\ ~HandledSnap.pinch /\ before.active
        /\ clock > before.last /\ before.last > 0
        /\ ~pinch_active[d] /\ last_pinch_time[d] = before.last
        /\ KeyCount(StepKeys, NudgeKeys) = 0

(* C5: sustained-pinch throttle. Within one unbroken pinch a nudge is sent
   on its first snapshot, consecutive nudges are more than 200 ms apart, no
   snapshot later than 200 ms after the latest nudge goes without one, no
   1-second window holds more than 5 nudges, and the snapshot that ends the
   pinch sends none. *)
C5_Throttle ==
    \A d \in Decks :
        /\ \A i \in 1..(Len(run[d]) - 1) : run[d][i + 1] - run[d][i] > 200
        /\ \A i \in 1..Len(run[d]) :
             Cardinality({j \in 1..Len(run[d]) :
                 run[d][j] >= run[d][i] /\ run[d][j] <= run[d][i] + 1000}) <= 5
        /\ (Handled(d) /\ HandledSnap.pinch) =>
             /\ Len(run[d]) > 0
             /\ clock - run[d][Len(run[d])] <= 200
             /\ ~before.active => run[d] = <<clock>>
        /\ (Handled(d) /\ ~HandledSnap.pinch) =>
             /\ KeyCount(StepKeys, NudgeKeys) = 0
             /\ run[d] = <<>>

C5_Witness ==
    \E d \in Decks :
        /\ Len(run[d]) = 5
        /\ run[d][5] - run[d][1] <= 1000
        /\ Handled(d) /\ clock = run[d][5]

(* C6: carried state. At every frame boundary each deck's pinch_active and
   previous fist equal the pinch and fist of the deck's latest snapshot, and
   are false if it never had one. *)
C6_CarriedState ==
    pc \in {"read", "waitkey", "done"} =>
        \A d \in Decks :
            /\ pinch_active[d] = last_snap[d].pinch
            /\ previous_play_pause[d] = last_snap[d].fist

C6_Witness ==
    /\ pc = "read"
    /\ last_snap["left"] = [fist |-> TRUE, pinch |-> FALSE]
    /\ last_snap["right"] = [fist |-> FALSE, pinch |-> TRUE]
    /\ previous_play_pause["left"] /\ ~pinch_active["left"]
    /\ ~previous_play_pause["right"] /\ pinch_active["right"]
    /\ clock > 0

(* C7: handedness inversion. Every well-formed observation tagged "left"
   gets deck identity "right_hand" and every one tagged "right" gets
   "left_hand", whatever its landmark geometry. *)
C7_Inversion ==
    pc = "returned" =>
        /\ \A i \in 1..Len(landmarks_list) :
             (WellFormed(landmarks_list[i]) /\ TagOf(landmarks_list[i]) \in {"left", "right"})
                 => Inverted(TagOf(landmarks_list[i])) \in KeysOf(gestures)
        /\ (/\ Len(landmarks_list) = 1
            /\ WellFormed(landmarks_list[1])
            /\ TagOf(landmarks_list[1]) \in {"left", "right"})
             => KeysOf(gestures) = {Inverted(TagOf(landmarks_list[1]))}

C7_Witness ==
    /\ pc = "returned"
    /\ Len(landmarks_list) = 1
    /\ WellFormed(landmarks_list[1])
    /\ TagOf(landmarks_list[1]) = "left"
    /\ ~ThumbLeftOfPalm(landmarks_list[1])
    /\ KeysOf(gestures) = {"right_hand"}

(* C8: geometric fallback. A well-formed observation whose tag is neither
   "left" nor "right" gets "right_hand" iff its thumb-tip x is strictly less
   than the mean x of landmarks 5, 9, 13, 17, else "left_hand"; the result is
   not inverted. *)
C8_Fallback ==
    pc = "returned" =>
        /\ \A i \in 1..Len(landmarks_list) :
             (WellFormed(landmarks_list[i]) /\ TagOf(landmarks_list[i]) \notin {"left", "right"})
                 => (IF ThumbLeftOfPalm(landmarks_list[i]) THEN "right_hand" ELSE "left_hand")
                        \in KeysOf(gestures)
        /\ (/\ Len(landmarks_list) = 1
            /\ WellFormed(landmarks_list[1])
            /\ TagOf(landmarks_list[1]) \notin {"left", "right"})
             => KeysOf(gestures)
                  = {IF ThumbLeftOfPalm(landmarks_list[1]) THEN "right_hand" ELSE "left_hand"}

C8_Witness ==
    /\ pc = "returned"
    /\ Len(landmarks_list) = 1
    /\ WellFormed(landmarks_list[1])
    /\ TagOf(landmarks_list[1]) = "unknown"
    /\ landmarks_list[1][5].x = 100
    /\ landmarks_list[1][6].x + landmarks_list[1][10].x
         + landmarks_list[1][14].x + landmarks_list[1][18].x = 401
    /\ KeysOf(gestures) = {"right_hand"}

(* C9: malformed observations are dropped. The gestures are those of the
   list with every observation that is not exactly 21 points plus a tag left
   out. *)
C9_MalformedDropped ==
    pc = "returned" => gestures = detect_gestures(SelectSeq(landmarks_list, WellFormed))

(* C10: two hands. Two well-formed hands tagged "left" and "right", in either
   order, give exactly the two snapshots "left_hand" and "right_hand", each
   computed from its own observation. *)
C10_TwoHands ==
    (/\ pc = "returned"
     /\ Len(landmarks_list) = 2
     /\ WellFormed(landmarks_list[1]) /\ WellFormed(landmarks_list[2])
     /\ {TagOf(landmarks_list[1]), TagOf(landmarks_list[2])} = {"left", "right"})
        => /\ Len(gestures) = 2
           /\ KeysOf(gestures) = {"left_hand", "right_hand"}
           /\ \A i \in 1..2 :
                LET o == landmarks_list[i]
                    e == Entry(gestures, Inverted(TagOf(o)))
                IN  /\ e.fist = _is_fist(SubSeq(o, 1, 21))
                    /\ e.open_hand = _is_open_hand(SubSeq(o, 1, 21))
                    /\ e.pinch = _is_pinch(SubSeq(o, 1, 21))
                    /\ e.hand_position = o[1]

C10_Witness ==
    /\ pc = "returned"
    /\ Len(landmarks_list) = 2
    /\ WellFormed(landmarks_list[1]) /\ WellFormed(landmarks_list[2])
    /\ TagOf(landmarks_list[1]) = "left" /\ TagOf(landmarks_list[2]) = "right"
    /\ Len(gestures) = 2
    /\ Entry(gestures, "right_hand").fist /\ ~Entry(gestures, "right_hand").pinch
    /\ ~Entry(gestures, "left_hand").fist /\ Entry(gestures, "left_hand").pinch

-----------------------------------------------------------------------------
(* C11: one snapshot per deck per frame, last write wins. The gestures of a
   frame hold at most one entry per deck identity; for a frame of well-formed
   observations the entry of a deck is the snapshot of the last observation in
   the list that resolves to that deck, and when the frame's hand loop has
   ended each such deck was stepped exactly once and each other deck never,
   the deck's previous_play_pause and pinch_active being the fist and pinch of
   that last observation. *)
C11_LastWriteWins ==
    pc \in {"handle", "waitkey"} =>
       /\ \A i, j \in 1..Len(gestures) :
             gestures[i].hand_id = gestures[j].hand_id => i = j
       /\ (\A i \in 1..Len(landmarks_list) : WellFormed(landmarks_list[i])) =>
             \A d \in Decks :
                LET hits == {i \in 1..Len(landmarks_list) :
                               ExpectedId(landmarks_list[i]) = HandId(d)}
                    last == CHOOSE i \in hits : \A j \in hits : j <= i
                    o    == landmarks_list[last]
                IN  /\ HasKey(gestures, HandId(d)) <=> hits # {}
                    /\ hits # {} =>
                          /\ Entry(gestures, HandId(d)).fist = AllCurled(o)
                          /\ Entry(gestures, HandId(d)).open_hand = AllStraight(o)
                          /\ Entry(gestures, HandId(d)).pinch = ThumbNearIndex(o)
                          /\ Entry(gestures, HandId(d)).hand_position = o[1]
                    /\ pc = "waitkey" =>
                          /\ StepsOf(d) = IF hits = {} THEN 0 ELSE 1
                          /\ hits # {} =>
                                /\ previous_play_pause[d] = AllCurled(o)
                                /\ pinch_active[d] = ThumbNearIndex(o)

\* two hands of one frame resolved to the left deck, an open hand first and a
\* pinching fist last: the deck was stepped once, with the fist
C11_Witness ==
    /\ pc = "waitkey"
    /\ Len(landmarks_list) = 2
    /\ \A i \in 1..2 : WellFormed(landmarks_list[i])
                        /\ ExpectedId(landmarks_list[i]) = "left_hand"
    /\ ~AllCurled(landmarks_list[1]) /\ AllCurled(landmarks_list[2])
    /\ ~ThumbNearIndex(landmarks_list[1]) /\ ThumbNearIndex(landmarks_list[2])
    /\ Len(gestures) = 1
    /\ StepsOf("left") = 1
    /\ previous_play_pause["left"] /\ pinch_active["left"]

-----------------------------------------------------------------------------
(* C12: deck independence. In every hand iteration the keys sent and the
   stepped deck's new previous_play_pause, pinch_active and last_pinch_time
   are fixed by that deck's own history and the clock alone: a play/pause key
   is sent iff the snapshot's fist is true and the deck's own latest earlier
   snapshot had no fist, a nudge key iff the snapshot pinches and either the
   deck's own latest earlier snapshot did not or more than 0.2 s have passed
   since the deck's own last_pinch_time, which becomes the clock exactly then;
   the keys sent are exactly these, 'd' then 'g' for the left deck and 'l'
   then 'h' for the right deck, whatever the other deck's state is, and the
   other deck's three variables are left unchanged. *)
C12_DeckIndependence ==
    [][pc = "handle" =>
         LET d == StepDeck
             o == CHOOSE x \in Decks : x # d
             play == IF d = "left" THEN "d" ELSE "l"
             nudge == IF d = "left" THEN "g" ELSE "h"
             rising == StepSnap.fist /\ ~was_fist[d]
             due == StepSnap.pinch
                    /\ (~was_pinching[d] \/ clock' - last_pinch_time[d] > PinchRepeatMs)
         IN  /\ previous_play_pause'[o] = previous_play_pause[o]
             /\ pinch_active'[o] = pinch_active[o]
             /\ last_pinch_time'[o] = last_pinch_time[o]
             /\ previous_play_pause'[d] = StepSnap.fist
             /\ pinch_active'[d] = StepSnap.pinch
             /\ last_pinch_time'[d] = IF due THEN clock' ELSE last_pinch_time[d]
             /\ [i \in 1..Len(StepSent) |-> StepSent[i].key] =
                   (IF rising THEN <<play>> ELSE <<>>) \o (IF due THEN <<nudge>> ELSE <<>>)]_vars

\* the right deck sent both of its keys, a play/pause for a rising fist and a
\* held-pinch repeat due by its own last nudge time, while the left deck held
\* a fist and a pinch whose nudge was 200 ms or less ago
C12_Witness ==
    /\ Handled("right")
    /\ Len(StepKeys) = 2
    /\ StepKeys[1].key = "l" /\ StepKeys[2].key = "h"
    /\ ~before.previous /\ HandledSnap.fist
    /\ before.active /\ HandledSnap.pinch
    /\ clock - before.last > PinchRepeatMs
    /\ previous_play_pause["left"]
    /\ pinch_active["left"]
    /\ last_pinch_time["left"] > 0
    /\ clock - last_pinch_time["left"] <= PinchRepeatMs

-----------------------------------------------------------------------------
(* C13: cross-deck key order. When the hand loop of a frame has ended, no key
   of the right deck ('l', 'h') precedes a key of the left deck ('d', 'g')
   among the keys sent in that frame. *)
C13_LeftBeforeRight ==
    pc = "waitkey" =>
       \A i, j \in 1..Len(sent) :
          (sent[i].key \in {"l", "h"} /\ sent[j].key \in {"d", "g"}) => j < i

-----------------------------------------------------------------------------
(* C14: a failed key send is absorbed and never retried. In every hand
   iteration in which a key send fails, the keys attempted are exactly those
   the triggers call for (play/pause iff a rising fist, a nudge iff a rising
   pinch or a held pinch whose repeat is due), the deck's state and is_playing
   change exactly as when the sends succeed, and the loop goes on to the next
   hand or to the end of the frame. *)
C14_SendFailureAbsorbed ==
    [][(pc = "handle" /\ \E i \in 1..Len(StepSent) : ~StepSent[i].ok) =>
         LET d == StepDeck
             plays == KeyCount(StepSent, {keyboard_mappings("play_pause_" \o d)})
             nudges == KeyCount(StepSent, {NudgeKey(d)})
             rising == StepSnap.fist /\ ~previous_play_pause[d]
             due == StepSnap.pinch
                    /\ (~pinch_active[d] \/ clock' - last_pinch_time[d] > PinchRepeatMs)
         IN  /\ Len(StepSent) = plays + nudges
             /\ plays = IF rising THEN 1 ELSE 0
             /\ nudges = IF due THEN 1 ELSE 0
             /\ is_playing' = IF rising THEN ~is_playing ELSE is_playing
             /\ previous_play_pause' = [previous_play_pause EXCEPT ![d] = StepSnap.fist]
             /\ pinch_active' = [pinch_active EXCEPT ![d] = StepSnap.pinch]
             /\ last_pinch_time' = [last_pinch_time EXCEPT ![d] =
                                      IF due THEN clock' ELSE last_pinch_time[d]]
             /\ idx' = idx + 1
             /\ pc' = IF idx = Len(gestures) THEN "waitkey" ELSE "handle"]_vars

\* the left deck's play/pause send failed, its nudge was still sent in the
\* same iteration, and the state moved on; a second hand is still to be handled
C14_Witness ==
    /\ Handled("left")
    /\ pc = "handle"
    /\ StepKeys = <<[key |-> "d", ok |-> FALSE], [key |-> "g", ok |-> TRUE]>>
    /\ ~before.previous /\ previous_play_pause["left"]
    /\ ~before.active /\ pinch_active["left"]
    /\ is_playing

-----------------------------------------------------------------------------
(* C15: a capture failure only skips the frame. Whatever cap.read() returns,
   the step taken at the head of the loop leaves the loop running (it never
   ends the session) and leaves each deck's state as it was. *)
C15_CaptureFailureSkips ==
    [][pc = "read" =>
         /\ pc' # "done"
         /\ UNCHANGED <<previous_play_pause, pinch_active, last_pinch_time>>]_vars

-----------------------------------------------------------------------------
(* C16: absent or dropped hand. Every step of a frame whose gestures hold no
   snapshot for a deck sends no key of that deck and leaves the deck's
   previous_play_pause, pinch_active and last_pinch_time as they were. When
   the deck's snapshot comes back after a frame without one, a fist that was
   also the deck's last fist value sends no play/pause key, and a pinch that
   was also the deck's last pinch value is a held pinch: its nudge is sent
   only if more than 0.2 s have passed since the deck's last nudge. *)
C16_AbsentHand ==
    [][/\ \A d \in Decks :
            LET g == IF pc = "read" THEN gestures' ELSE gestures
            IN  ~HasKey(g, HandId(d)) =>
                  /\ previous_play_pause'[d] = previous_play_pause[d]
                  /\ pinch_active'[d] = pinch_active[d]
                  /\ last_pinch_time'[d] = last_pinch_time[d]
                  /\ KeyCount(sent', {keyboard_mappings("play_pause_" \o d),
                                      NudgeKey(d)}) = 0
       /\ (/\ pc = "handle"
           /\ frames_seen.count = 2
           /\ StepDeck \notin frames_seen.prev) =>
             /\ (StepSnap.fist /\ was_fist[StepDeck]) =>
                   KeyCount(StepSent, PlayKeys) = 0
             /\ (StepSnap.pinch /\ was_pinching[StepDeck]) =>
                   /\ KeyCount(StepSent, NudgeKeys) =
                        IF clock' - last_pinch_time[StepDeck] > PinchRepeatMs
                        THEN 1 ELSE 0
                   /\ pinch_active'[StepDeck]]_vars

\* the left deck held a pinching fist, had no snapshot in the frame before,
\* and came back with the pinching fist within 0.2 s: no key was sent
C16_Witness ==
    /\ Handled("left")
    /\ frames_seen.count = 2
    /\ "left" \notin frames_seen.prev
    /\ before.previous /\ before.active
    /\ HandledSnap.fist /\ HandledSnap.pinch
    /\ clock - before.last <= PinchRepeatMs
    /\ sent = <<>>
    /\ last_pinch_time["left"] = before.last

-----------------------------------------------------------------------------
(* C17: end-to-end scenario. From the initial state, along five frames of one
   hand tagged "left", a fist in frames 1-3 and an open hand in frames 4-5
   without a pinch, the keys sent are exactly one: the right deck's play/pause
   key 'l', in frame 1; the left deck's previous_play_pause, pinch_active and
   last_pinch_time keep their initial values throughout. *)
C17_EndToEnd ==
    e2e.n >= 1 =>
       /\ e2e.keys = IF e2e.n = 1 /\ pc = "handle"
                     THEN <<>>
                     ELSE <<[frame |-> 1, key |-> "l"]>>
       /\ ~previous_play_pause["left"]
       /\ ~pinch_active["left"]
       /\ last_pinch_time["left"] = 0
       /\ previous_play_pause["right"] = (IF pc = "handle" THEN e2e.n \in 2..4 ELSE e2e.n <= 3)
       /\ ~pinch_active["right"]

\* the fifth frame of the scenario has been handled
C17_Witness ==
    /\ e2e.n = 5
    /\ pc = "waitkey"
    /\ e2e.keys = <<[frame |-> 1, key |-> "l"]>>
    /\ is_playing

-----------------------------------------------------------------------------
(* C18 as stated: triggers use only the immediately preceding frame. Among the
   snapshots handled right after a frame in which their deck had no snapshot,
   every fist has the same play/pause outcome and every pinch the same
   classification as rising edge or held: the outcome does not vary with what
   an older frame showed. *)
C18_PrecedingFrameOnly ==
    /\ Cardinality(verdicts.fist) <= 1
    /\ Cardinality(verdicts.pinch) <= 1

(* C18: triggers use only the deck's latest earlier snapshot. In every hand
   iteration a play/pause key is sent iff the snapshot's fist is true and the
   fist of the deck's latest earlier snapshot (false if there is none) was
   false, whether or not that snapshot belongs to the frame directly before;
   a pinch is taken as a rising edge, its nudge sent at once, iff the pinch of
   that latest earlier snapshot was false, and as held otherwise. *)
C18_LatestSnapshotOnly ==
    [][pc = "handle" =>
         LET d == StepDeck
         IN  /\ KeyCount(StepSent, PlayKeys) =
                  IF StepSnap.fist /\ ~was_fist[d] THEN 1 ELSE 0
             /\ StepSnap.pinch =>
                  /\ ~pinch_active[d] <=> ~was_pinching[d]
                  /\ KeyCount(StepSent, NudgeKeys) =
                       IF ~was_pinching[d] \/ clock' - last_pinch_time[d] > PinchRepeatMs
                       THEN 1 ELSE 0]_vars

\* after frames without the deck, a fist has fired play/pause once and not
\* fired it another time, and a pinch has been both a rising edge and held
C18_Witness ==
    /\ Handled("right")
    /\ frames_seen.count = 2
    /\ "right" \notin frames_seen.prev
    /\ HandledSnap.fist /\ ~before.previous
    /\ KeyCount(StepKeys, PlayKeys) = 1
    /\ verdicts.fist = {TRUE, FALSE}
    /\ verdicts.pinch = {TRUE, FALSE}

-----------------------------------------------------------------------------
(* C19: each deck has its own play/pause state. A hand iteration for one deck
   leaves the playing status the controller reports for the other deck
   unchanged. *)
C19_OwnPlayingStatus ==
    [][pc = "handle" =>
         \A o \in Decks \ {StepDeck} : PlayingStatus(o)' = PlayingStatus(o)]_vars

-----------------------------------------------------------------------------
(* C20: fist and open_hand. For every well-formed single hand the snapshot's
   fist is true iff all four tips (8, 12, 16, 20) have y strictly greater than
   their joints (6, 10, 14, 18), open_hand is true iff all four have y strictly
   less; the two are never both true, both are false when one to three fingers
   are curled, and both are false when some finger's tip y equals its joint y. *)
C20_FistOpenHand ==
    (/\ pc = "returned"
     /\ Len(landmarks_list) = 1
     /\ WellFormed(landmarks_list[1])) =>
       LET o == landmarks_list[1]
           s == gestures[1]
           curled == Cardinality({f \in Fingers : Curled(o, f)})
       IN  /\ Len(gestures) = 1
           /\ s.fist <=> AllCurled(o)
           /\ s.open_hand <=> AllStraight(o)
           /\ ~(s.fist /\ s.open_hand)
           /\ curled \in 1..3 => ~s.fist /\ ~s.open_hand
           /\ (\E f \in Fingers : o[f[1]].y = o[f[2]].y) => ~s.fist /\ ~s.open_hand

\* three fingers curled and the fourth level with its joint: neither a fist
\* nor an open hand
C20_Witness ==
    /\ pc = "returned"
    /\ Len(landmarks_list) = 1
    /\ WellFormed(landmarks_list[1])
    /\ Cardinality({f \in Fingers : Curled(landmarks_list[1], f)}) = 3
    /\ \E f \in Fingers : landmarks_list[1][f[1]].y = landmarks_list[1][f[2]].y
    /\ Len(gestures) = 1
    /\ ~gestures[1].fist /\ ~gestures[1].open_hand

-----------------------------------------------------------------------------
(* C21: the pinch threshold is strict. For every well-formed single hand the
   snapshot's pinch is true iff (x4 - x8)^2 + (y4 - y8)^2 < 900; a thumb tip
   exactly 30 pixels from the index tip, such as at offset (30, 0) or
   (18, 24), gives pinch false. *)
C21_PinchStrict ==
    (/\ pc = "returned"
     /\ Len(landmarks_list) = 1
     /\ WellFormed(landmarks_list[1])) =>
       LET o == landmarks_list[1]
           dx == o[5].x - o[9].x
           dy == o[5].y - o[9].y
       IN  /\ Len(gestures) = 1
           /\ gestures[1].pinch <=> dx * dx + dy * dy < 900
           /\ dx * dx + dy * dy = 900 => ~gestures[1].pinch

\* the thumb tip at offset (18, 24) from the index tip, distance exactly 30:
\* no pinch
C21_Witness ==
    /\ pc = "returned"
    /\ Len(landmarks_list) = 1
    /\ WellFormed(landmarks_list[1])
    /\ landmarks_list[1][5].x - landmarks_list[1][9].x = 18
    /\ landmarks_list[1][5].y - landmarks_list[1][9].y = 24
    /\ Len(gestures) = 1
    /\ ~gestures[1].pinch

-----------------------------------------------------------------------------
(* C22: cancellation at frame granularity. The quit key is read only when
   every snapshot of the current frame has been handled, never in the middle
   of the hand loop; once it has been read the loop has ended, and no step
   processes a frame, sends a key or changes any state of the program. *)
C22_Cancellation ==
    /\ [](stop => pc = "done")
    /\ [][/\ (stop' /\ ~stop) =>
               /\ pc = "waitkey"
               /\ idx = Len(gestures) + 1
               /\ \A d \in Decks : HasKey(gestures, HandId(d)) => StepsOf(d) = 1
          /\ pc = "handle" => pc' # "done"
          /\ stop => UNCHANGED prog]_vars

\* the quit key was read at the end of a frame in which both decks sent their
\* keys: the loop has ended with the decks' state in place
C22_Witness ==
    /\ stop
    /\ pc = "done"
    /\ is_playing
    /\ previous_play_pause["left"] /\ previous_play_pause["right"]
    /\ pinch_active["left"] /\ pinch_active["right"]
    /\ last_pinch_time["left"] > 0

-----------------------------------------------------------------------------
(* C23: get_dj_controls. A call of tracker.get_dj_controls on the gestures
   returns without raising, and on empty gestures the controls it returns
   hold both a 'volume_left' and a 'volume_right' entry. *)
C23_DjControls ==
    pc = "called" =>
       /\ controls.raised = "none"
       /\ gestures = <<>> => {"volume_left", "volume_right"} \subseteq controls.keys

-----------------------------------------------------------------------------
(* C24: within-deck key order. Among the keys sent in a frame, a deck's
   play/pause key ('d' left, 'l' right) never comes after that deck's nudge
   key ('g' left, 'h' right): when a deck sends both, play/pause is first. *)
C24_PlayBeforeNudge ==
    \A d \in Decks :
       \A i, j \in 1..Len(sent) :
          (/\ sent[i].key = keyboard_mappings("play_pause_" \o d)
           /\ sent[j].key = NudgeKey(d)) => i < j

\* both decks sent both keys in one frame, each deck's play/pause key
\* directly before its nudge key
C24_Witness ==
    /\ pc = "waitkey"
    /\ Len(sent) = 4
    /\ \E a, b \in Decks :
          /\ a # b
          /\ sent[1].key = keyboard_mappings("play_pause_" \o a)
          /\ sent[2].key = NudgeKey(a)
          /\ sent[3].key = keyboard_mappings("play_pause_" \o b)
          /\ sent[4].key = NudgeKey(b)

-----------------------------------------------------------------------------
(* C25: the controller's is_playing flag. is_playing starts false and is true
   exactly when the number of play/pause keys attempted so far, over both
   decks and counting failed sends, is odd: a hand iteration flips it iff it
   attempts a play/pause key, whether or not the send succeeds, and an
   iteration that attempts none, with or without a nudge, leaves it unchanged;
   no other step changes it. *)
C25_IsPlayingParity ==
    /\ [](is_playing = odd_plays)
    /\ [][/\ pc = "handle" =>
               /\ KeyCount(StepSent, PlayKeys) \in {0, 1}
               /\ KeyCount(StepSent, PlayKeys) = 1 => is_playing' = ~is_playing
               /\ KeyCount(StepSent, PlayKeys) = 0 => is_playing' = is_playing
          /\ pc # "handle" => is_playing' = is_playing]_vars

\* a second play/pause key, whose send failed, has set is_playing back to
\* false, and the nudge sent after it left it there
C25_Witness ==
    /\ Handled("left")
    /\ Len(StepKeys) = 2
    /\ StepKeys[1] = [key |-> "d", ok |-> FALSE]
    /\ StepKeys[2].key = "g"
    /\ ~is_playing
    /\ ~odd_plays

-----------------------------------------------------------------------------
(* C26: per-frame key bound. Among the keys sent in a frame each deck has at
   most one play/pause key and at most one nudge key, so a frame sends at most
   four keys, whether its hands resolve to one deck or to both. *)
C26_FrameKeyBound ==
    /\ \A d \in Decks :
          /\ KeyCount(sent, {keyboard_mappings("play_pause_" \o d)}) <= 1
          /\ KeyCount(sent, {NudgeKey(d)}) <= 1
    /\ Len(sent) <= 4
    /\ \A i \in 1..Len(sent) : sent[i].key \in PlayKeys \cup NudgeKeys

\* a frame that reached the bound: four keys, one of each kind for each deck
C26_Witness ==
    /\ pc = "waitkey"
    /\ Len(gestures) = 2
    /\ Len(sent) = 4
    /\ \A d \in Decks :
          /\ KeyCount(sent, {keyboard_mappings("play_pause_" \o d)}) = 1
          /\ KeyCount(sent, {NudgeKey(d)}) = 1

-----------------------------------------------------------------------------
(* C27: close nudges imply a release. Whenever a hand iteration sends a nudge
   key for a deck 200 ms or less after that deck's previous nudge key, a
   snapshot without pinch was handled for the deck between the two, and the
   later nudge is a rising edge (pinch_active was false), not a held repeat. *)
C27_CloseNudgesReleased ==
    [][(/\ pc = "handle"
        /\ KeyCount(StepSent, {NudgeKey(StepDeck)}) = 1
        /\ nudge_log[StepDeck].at >= 0
        /\ clock' - nudge_log[StepDeck].at <= PinchRepeatMs) =>
          /\ nudge_log[StepDeck].released
          /\ ~pinch_active[StepDeck]]_vars

\* the left deck nudged, released and pinched again, the second nudge no more
\* than 200 ms after the first
C27_Witness ==
    /\ Handled("left")
    /\ KeyCount(StepKeys, {"g"}) = 1
    /\ before.last > 0
    /\ clock - before.last <= PinchRepeatMs
    /\ ~before.active
    /\ nudge_log["left"] = [at |-> clock, released |-> FALSE]

-----------------------------------------------------------------------------
(* C28: last_pinch_time bookkeeping. For each deck last_pinch_time is always
   the clock value read in the hand iteration that sent the deck's most recent
   nudge key, and 0 while the deck has never nudged; it never exceeds the
   current clock, never decreases, and changes only in a hand iteration that
   sends a nudge key for that deck. *)
C28_LastPinchTime ==
    /\ [](\A d \in Decks :
            /\ last_pinch_time[d] = IF nudge_log[d].at >= 0 THEN nudge_log[d].at ELSE 0
            /\ last_pinch_time[d] <= clock)
    /\ [][\A d \in Decks :
            /\ last_pinch_time'[d] >= last_pinch_time[d]
            /\ clock' >= clock
            /\ last_pinch_time'[d] # last_pinch_time[d] =>
                  /\ pc = "handle"
                  /\ StepDeck = d
                  /\ KeyCount(StepSent, {NudgeKey(d)}) = 1
                  /\ last_pinch_time'[d] = clock']_vars

\* at a frame boundary the right deck's last_pinch_time is the time of its
\* latest nudge, a held repeat sent earlier than now, the deck still pinching
C28_Witness ==
    /\ pc = "read"
    /\ pinch_active["right"]
    /\ Len(run["right"]) >= 2
    /\ nudge_log["right"].at > PinchRepeatMs
    /\ last_pinch_time["right"] = nudge_log["right"].at
    /\ last_pinch_time["right"] < clock

====
